---- MODULE Spec2Model ----
(***************************************************************************)
(* Model of the TikTok monitor of project-iris: the scheduler of           *)
(* monitor.py (TikTokMonitorService), the SQLite store of storage.py       *)
(* (MonitorStore), the handle normalisation of scraper.py and the request  *)
(* handlers of app.py that drive them.                                     *)
(*                                                                         *)
(* Python strings are sequences of one-character strings, Python values    *)
(* are tagged records (PyNone, PyInt, PyStr, PyBool), every store method   *)
(* is one SQLite transaction and so one step, except clear_monitor_data,   *)
(* whose executescript runs its four DELETE statements in autocommit mode. *)
(***************************************************************************)
EXTENDS Integers, Sequences, FiniteSets, TLC

(***************************************************************************)
(* Bounds of the model.                                                    *)
(***************************************************************************)
\* request-handler threads of the web server
NumCallers == 2
\* Thread objects that start() may create in one run
MaxLoops == 2
\* rows a table's AUTOINCREMENT sequence may hand out
MaxRows == 2
\* seconds the wall clock may advance
MaxTime == 0

(***************************************************************************)
(* Python strings and values.                                              *)
(***************************************************************************)
LowerLetters == {"a", "b"}
UpperLetters == {"A", "B"}
DigitChars == <<"0", "1", "2", "3", "4", "5", "6", "7", "8", "9">>
Digits == {DigitChars[i] : i \in 1..Len(DigitChars)}
\* the characters of the regular expression's class [A-Za-z0-9._]
HandleChars == LowerLetters \cup UpperLetters \cup Digits \cup {".", "_"}

\* the value of a decimal digit
DigitValue(c) == (CHOOSE i \in 1..Len(DigitChars) : DigitChars[i] = c) - 1
Whitespace == {" "}

\* str.lower() on one character
LowerChar(c) ==
    CASE c = "A" -> "a"
      [] c = "B" -> "b"
      [] OTHER -> c

\* the character's code point, the order of SQLite's BINARY and NOCASE collations
CharCode(c) ==
    CASE c = " " -> 32
      [] c = "." -> 46
      [] c \in Digits -> 48 + DigitValue(c)
      [] c = "@" -> 64
      [] c = "A" -> 65
      [] c = "B" -> 66
      [] c = "_" -> 95
      [] c = "a" -> 97
      [] c = "b" -> 98
      [] OTHER -> 33

\* str.lower()
Lower(s) == [i \in 1..Len(s) |-> LowerChar(s[i])]

RECURSIVE LStrip(_, _)
\* str.lstrip(chars)
LStrip(s, chars) ==
    IF s # <<>> /\ Head(s) \in chars THEN LStrip(Tail(s), chars) ELSE s

RECURSIVE RStrip(_, _)
\* the right half of str.strip()
RStrip(s, chars) ==
    IF s # <<>> /\ s[Len(s)] \in chars
    THEN RStrip(SubSeq(s, 1, Len(s) - 1), chars)
    ELSE s

\* str.strip()
Strip(s) == RStrip(LStrip(s, Whitespace), Whitespace)

PyNone == [ty |-> "none", i |-> 0, s |-> <<>>]
PyInt(n) == [ty |-> "int", i |-> n, s |-> <<>>]
PyStr(s) == [ty |-> "str", i |-> 0, s |-> s]
PyBool(b) == [ty |-> "bool", i |-> IF b THEN 1 ELSE 0, s |-> <<>>]

\* bool(value)
Truthy(v) ==
    CASE v.ty = "none" -> FALSE
      [] v.ty = "str" -> v.s # <<>>
      [] OTHER -> v.i # 0

\* Python's ==: None equals only None, True == 1, a str equals only a str
PyEq(v, w) ==
    CASE v.ty = "none" \/ w.ty = "none" -> v.ty = w.ty
      [] v.ty = "str" \/ w.ty = "str" -> v.ty = w.ty /\ v.s = w.s
      [] OTHER -> v.i = w.i

RECURSIVE DecimalValue(_)
DecimalValue(s) ==
    IF s = <<>> THEN 0
    ELSE 10 * DecimalValue(SubSeq(s, 1, Len(s) - 1)) + DigitValue(s[Len(s)])

\* whether int(str) parses: optional sign, then digits only, whitespace stripped
IsIntLiteral(s) ==
    LET t == Strip(s)
        d == IF t # <<>> /\ Head(t) \in {"+", "-"} THEN Tail(t) ELSE t
    IN  d # <<>> /\ \A i \in 1..Len(d) : d[i] \in Digits

\* int(str) of a string that parses
IntLiteral(s) ==
    LET t == Strip(s)
    IN  IF Head(t) = "-" THEN 0 - DecimalValue(Tail(t))
        ELSE IF Head(t) = "+" THEN DecimalValue(Tail(t))
        ELSE DecimalValue(t)

\* _as_int with None read as zero
AsIntNoneIsZero(v) ==
    CASE v.ty = "none" -> PyInt(0)
      [] v.ty = "str" -> IF IsIntLiteral(v.s) THEN PyInt(IntLiteral(v.s)) ELSE PyInt(0)
      [] OTHER -> PyInt(v.i)

\* monitor._as_int and storage._to_int: None for None and for what int() refuses
AsInt(v) ==
    CASE v.ty = "none" -> PyNone
      [] v.ty = "str" -> IF IsIntLiteral(v.s) THEN PyInt(IntLiteral(v.s)) ELSE PyNone
      [] OTHER -> PyInt(v.i)

RECURSIVE DecimalDigits(_)
\* the decimal digits of a natural number
DecimalDigits(n) ==
    IF n < 10 THEN <<DigitChars[n + 1]>>
    ELSE DecimalDigits(n \div 10) \o <<DigitChars[(n % 10) + 1]>>

\* str(value), as record_events stores old_value and new_value
PyToStr(v) ==
    CASE v.ty = "str" -> v.s
      [] v.ty = "bool" -> IF v.i = 1 THEN <<"T", "r", "u", "e">>
                          ELSE <<"F", "a", "l", "s", "e">>
      [] v.ty = "int" -> IF v.i < 0 THEN <<"-">> \o DecimalDigits(0 - v.i)
                         ELSE DecimalDigits(v.i)
      [] OTHER -> <<"N", "o", "n", "e">>

(***************************************************************************)
(* scraper.py: handles and the Profile Fetcher's outcomes.                 *)
(***************************************************************************)
MinHandleLen == 2
MaxHandleLen == 24

\* re.fullmatch(r"[A-Za-z0-9._]{2,24}", s)
FullMatchHandle(s) ==
    /\ Len(s) >= MinHandleLen
    /\ Len(s) <= MaxHandleLen
    /\ \A i \in 1..Len(s) : s[i] \in HandleChars

\* username.strip().lstrip("@").lower(), before normalize_username validates it
NormalForm(username) == Lower(LStrip(Strip(username), {"@"}))

\* whether normalize_username returns (it raises TikTokScrapeError otherwise)
ValidUsername(username) == FullMatchHandle(NormalForm(username))

\* normalize_username of a username it accepts
normalize_username(username) == NormalForm(username)

(***************************************************************************)
(* monitor.py: the Change Detector.                                        *)
(***************************************************************************)
\* previous = None: the dict of no snapshot row
NoRow ==
    [username |-> PyNone, checked_at |-> PyNone, nickname |-> PyNone, bio |-> PyNone,
     verified |-> PyNone, followers |-> PyNone, following |-> PyNone,
     likes |-> PyNone, videos_count |-> PyNone, profile_url |-> PyNone]

NUMERIC_FIELDS == <<"followers", "following", "likes", "videos_count">>
TEXT_FIELDS == <<"nickname", "bio">>
BOOLEAN_FIELDS == <<"verified">>

\* f"{delta:+d}"
SignedDecimal(n) ==
    IF n < 0 THEN <<"-">> \o DecimalDigits(0 - n) ELSE <<"+">> \o DecimalDigits(n)

\* the numeric loop with the delta taken the other way round, old - new
NumericEventDeltaReversed(previous, current, field) ==
    LET old_value == AsInt(previous[field])
        new_value == AsInt(current[field])
    IN  IF old_value = PyNone \/ new_value = PyNone \/ PyEq(old_value, new_value)
        THEN <<>>
        ELSE <<[metric |-> field,
                old_value |-> old_value,
                new_value |-> new_value,
                delta |-> PyInt(old_value.i - new_value.i),
                message |-> [field |-> field,
                             old |-> PyToStr(old_value),
                             new |-> PyToStr(new_value),
                             delta |-> SignedDecimal(old_value.i - new_value.i)]]>>

\* the event of one numeric field, lines 33-46; <<>> when the loop continues
NumericEvent(previous, current, field) ==
    LET old_value == AsInt(previous[field])
        new_value == AsInt(current[field])
    IN  IF old_value = PyNone \/ new_value = PyNone \/ PyEq(old_value, new_value)
        THEN <<>>
        ELSE <<[metric |-> field,
                old_value |-> old_value,
                new_value |-> new_value,
                delta |-> PyInt(new_value.i - old_value.i),
                message |-> [field |-> field,
                             old |-> PyToStr(old_value),
                             new |-> PyToStr(new_value),
                             delta |-> SignedDecimal(new_value.i - old_value.i)]]>>

\* the event of one text field, lines 49-61
TextEvent(previous, current, field) ==
    LET old_value == previous[field]
        new_value == current[field]
    IN  IF PyEq(old_value, new_value)
        THEN <<>>
        ELSE <<[metric |-> field,
                old_value |-> old_value,
                new_value |-> new_value,
                delta |-> PyNone,
                message |-> [field |-> field, old |-> <<>>, new |-> <<>>,
                             delta |-> <<>>]]>>

\* the event of one boolean field, lines 64-76
BooleanEvent(previous, current, field) ==
    LET old_value == PyBool(Truthy(previous[field]))
        new_value == PyBool(Truthy(current[field]))
    IN  IF PyEq(old_value, new_value)
        THEN <<>>
        ELSE <<[metric |-> field,
                old_value |-> old_value,
                new_value |-> new_value,
                delta |-> PyNone,
                message |-> [field |-> field,
                             old |-> PyToStr(old_value),
                             new |-> PyToStr(new_value),
                             delta |-> <<>>]]>>

RECURSIVE FieldEvents(_, _, _, _)
\* a for-loop that puts each field's event in front of the events found so far
FieldEventsReversed(previous, current, fields, kind) ==
    IF fields = <<>> THEN <<>>
    ELSE FieldEvents(previous, current, Tail(fields), kind)
         \o (CASE kind = "numeric" -> NumericEvent(previous, current, Head(fields))
               [] kind = "text" -> TextEvent(previous, current, Head(fields))
               [] OTHER -> BooleanEvent(previous, current, Head(fields)))

\* one of the three for-loops: the events of `fields`, in order; kind names the loop
FieldEvents(previous, current, fields, kind) ==
    IF fields = <<>> THEN <<>>
    ELSE (CASE kind = "numeric" -> NumericEvent(previous, current, Head(fields))
            [] kind = "text" -> TextEvent(previous, current, Head(fields))
            [] OTHER -> BooleanEvent(previous, current, Head(fields)))
         \o FieldEvents(previous, current, Tail(fields), kind)

\* detect_profile_changes without lines 27-28: a missing previous snapshot is
\* compared like an empty one
DetectNoBaseline(previous, current) ==
    FieldEvents(previous, current, NUMERIC_FIELDS, "numeric")
    \o FieldEvents(previous, current, TEXT_FIELDS, "text")
    \o FieldEvents(previous, current, BOOLEAN_FIELDS, "boolean")

\* detect_profile_changes(previous, current); previous is NoRow or a snapshot row
detect_profile_changes(previous, current) ==
    IF previous = NoRow THEN <<>>
    ELSE FieldEvents(previous, current, NUMERIC_FIELDS, "numeric")
         \o FieldEvents(previous, current, TEXT_FIELDS, "text")
         \o FieldEvents(previous, current, BOOLEAN_FIELDS, "boolean")

(***************************************************************************)
(* scraper.py: the outcomes of fetch_tiktok_profile.                       *)
(***************************************************************************)
\* the watch_username values the requests of the model carry
RawInputs == {<<"A", "b">>, <<"b">>}

\* request.form.get("watch_username", "").strip().lstrip("@") of remove_watch
\* and check_watch_now
AppHandle(raw) == LStrip(Strip(raw), {"@"})

\* the uniqueId the page of account n carries: the account's canonical handle
UniqueIds(n) == {n}

\* the followerCount values the page may carry
FollowerCounts == {PyInt(100), PyInt(150)}

NoProfile ==
    [username |-> PyNone, nickname |-> PyNone, bio |-> PyNone, verified |-> PyNone,
     followers |-> PyNone, following |-> PyNone, likes |-> PyNone,
     videos_count |-> PyNone, profile_url |-> PyNone]

\* the dict fetch_tiktok_profile returns (recent_videos, which the monitor and
\* the store never read, is left out)
Profile(uniqueId, normalized, followerCount) ==
    [username |-> PyStr(uniqueId),
     nickname |-> PyStr(<<"n">>),
     bio |-> PyNone,
     verified |-> PyBool(FALSE),
     followers |-> followerCount,
     following |-> PyNone,
     likes |-> PyNone,
     videos_count |-> PyNone,
     profile_url |-> PyStr(<<"https://www.tiktok.com/@">> \o normalized)]

\* str(exc) of a TikTokScrapeError
ScrapeErrorText(msg) == PyStr(<<msg>>)

\* f"{exc.__class__.__name__}: {exc}" of any other exception
UnexpectedErrorText(cls, msg) == PyStr(<<cls>> \o <<": ">> \o <<msg>>)

\* what fetch_tiktok_profile(username) does: it raises the validation error of
\* normalize_username, a scrape error or an error of the HTTP client, or it
\* returns a profile
FetchOutcomes(username) ==
    IF ~ValidUsername(username)
    THEN {[kind |-> "scrape_error", profile |-> NoProfile,
           text |-> ScrapeErrorText("Please enter a valid TikTok username.")]}
    ELSE {[kind |-> "scrape_error", profile |-> NoProfile,
           text |-> ScrapeErrorText("Could not read TikTok profile payload from page.")],
          [kind |-> "exception", profile |-> NoProfile,
           text |-> UnexpectedErrorText("ConnectionError", "timed out")]}
         \cup {[kind |-> "ok", text |-> PyNone,
                profile |-> Profile(u, normalize_username(username), f)] :
                  u \in UniqueIds(normalize_username(username)), f \in FollowerCounts}

(***************************************************************************)
(* The state.                                                              *)
(***************************************************************************)
Callers == 1..NumCallers
Loops == (NumCallers + 1)..(NumCallers + MaxLoops)
Threads == Callers \cup Loops
\* self._thread = None
NoThread == 0

VARIABLES
    pc,                     \* where each thread is
    frame,                  \* the local variables of each thread's call
    ret,                    \* history: the answer the last step gave, if it gave one
    stop_event,             \* TikTokMonitorService._stop_event
    run_lock,               \* TikTokMonitorService._run_lock is held
    thread,                 \* TikTokMonitorService._thread
    interval_seconds,       \* TikTokMonitorService.interval_seconds
    last_run_started_at,
    last_run_finished_at,
    last_run_summary,
    now,                    \* the wall clock, in seconds
    watch_accounts,         \* table watch_accounts: a set of rows, username its key
    snapshots,              \* table snapshots, in id order
    events,                 \* table events, in id order
    failures,               \* table failures, in id order
    seq,                    \* sqlite_sequence: the last id of each table
    midflight               \* history: live loop threads whose cycle a stop signal met

service == <<stop_event, run_lock, thread, interval_seconds, last_run_started_at,
             last_run_finished_at, last_run_summary>>
store == <<watch_accounts, snapshots, events, failures, seq>>
vars == <<pc, frame, ret, service, now, store, midflight>>

NoSummary == [status |-> "none", accounts |-> 0, checked |-> 0, failed |-> 0]

\* SETTING_DEFINITIONS["monitor_interval_seconds"]["min"]
MinInterval == 30

EmptyFrame ==
    [op |-> "none", username |-> <<>>, previous |-> NoRow, current |-> NoProfile,
     error |-> PyNone, accounts |-> <<>>, idx |-> 0, checked |-> 0, failed |-> 0,
     joined |-> NoThread, timeout |-> 0, waited |-> 0]

NoRet ==
    [by |-> NoThread, op |-> "none", status |-> "none", summary |-> NoSummary,
     joined |-> NoThread, timed_out |-> FALSE]

\* thread t's call of op answers status
Ret(t, op, status) == [NoRet EXCEPT !.by = t, !.op = op, !.status = status]

\* the values utc_now_iso() may read off the clock next
ClockReadings == {n \in {now, now + 1} : n <= MaxTime}

\* utc_now_iso() at second n
utc_now_iso(n) == PyStr(DecimalDigits(n))

Init ==
    /\ pc = [t \in Threads |-> IF t \in Callers THEN "idle" ELSE "unborn"]
    /\ frame = [t \in Threads |-> EmptyFrame]
    /\ ret = NoRet
    /\ stop_event = FALSE
    /\ run_lock = FALSE
    /\ thread = NoThread
    /\ interval_seconds = MinInterval
    /\ last_run_started_at = PyNone
    /\ last_run_finished_at = PyNone
    /\ last_run_summary = NoSummary
    /\ now = 0
    /\ watch_accounts = {}
    /\ snapshots = <<>>
    /\ events = <<>>
    /\ failures = <<>>
    /\ seq = [snapshots |-> 0, events |-> 0, failures |-> 0]
    /\ midflight = {}

(***************************************************************************)
(* storage.py: MonitorStore.  Every method but clear_monitor_data runs in  *)
(* one transaction of its own connection.                                  *)
(***************************************************************************)
HasAccount(username) == \E r \in watch_accounts : r.username = username

\* INSERT INTO watch_accounts (username, created_at, active) VALUES (?, ?, 1)
NewAccount(username, created_at) ==
    [username |-> username, created_at |-> created_at, active |-> 1,
     last_checked_at |-> PyNone, last_error |-> PyNone]

\* ... ON CONFLICT(username) DO NOTHING
InsertOrIgnore(accounts, username, created_at) ==
    IF \E r \in accounts : r.username = username THEN accounts
    ELSE accounts \cup {NewAccount(username, created_at)}

\* add_watch_account as INSERT OR REPLACE: an existing entry is written anew
AddByReplace(accounts, username, created_at) ==
    {r \in accounts : r.username # username} \cup {NewAccount(username, created_at)}

\* add_watch_account: ... ON CONFLICT(username) DO UPDATE SET active = 1
add_watch_account(accounts, username, created_at) ==
    IF \E r \in accounts : r.username = username
    THEN {IF r.username = username THEN [r EXCEPT !.active = 1] ELSE r : r \in accounts}
    ELSE accounts \cup {NewAccount(username, created_at)}

\* deactivate_watch_account as a hard delete: DELETE FROM watch_accounts WHERE ...
DeactivateByDelete(accounts, username) == {r \in accounts : r.username # username}

\* deactivate_watch_account: UPDATE watch_accounts SET active = 0 WHERE username = ?
deactivate_watch_account(accounts, username) ==
    {IF r.username = username THEN [r EXCEPT !.active = 0] ELSE r : r \in accounts}

\* UPDATE watch_accounts SET last_checked_at = ?, last_error = ? WHERE username = ?
UpdateChecked(accounts, username, checked_at, error) ==
    {IF r.username = username
     THEN [r EXCEPT !.last_checked_at = checked_at, !.last_error = error]
     ELSE r : r \in accounts}

RECURSIVE LexLess(_, _)
\* s sorts strictly before t, character code by character code
LexLess(s, t) ==
    IF t = <<>> THEN FALSE
    ELSE IF s = <<>> THEN TRUE
    ELSE IF CharCode(Head(s)) # CharCode(Head(t)) THEN CharCode(Head(s)) < CharCode(Head(t))
    ELSE LexLess(Tail(s), Tail(t))

\* ORDER BY username COLLATE NOCASE ASC: s may come before t
NocaseBefore(s, t) == ~LexLess(Lower(t), Lower(s))

\* list_watch_accounts(active_only): the orders SQLite may return the usernames
\* in (rows that tie under NOCASE come in either order)
list_watch_accounts(active_only) ==
    LET rows == {r.username : r \in {x \in watch_accounts : ~active_only \/ x.active = 1}}
        n == Cardinality(rows)
    IN  {l \in [1..n -> rows] :
            /\ \A i, j \in 1..n : i # j => l[i] # l[j]
            /\ \A i, j \in 1..n : i < j => NocaseBefore(l[i], l[j])}

\* SELECT ... FROM snapshots WHERE username = ? ORDER BY id DESC LIMIT 1, as a
\* dict without the id; NoRow stands for None
get_latest_snapshot(username) ==
    LET mine == {i \in 1..Len(snapshots) : snapshots[i].username = PyStr(username)}
    IN  IF mine = {} THEN NoRow
        ELSE LET r == snapshots[CHOOSE i \in mine : \A j \in mine : j <= i]
             IN  [username |-> r.username, checked_at |-> r.checked_at,
                  nickname |-> r.nickname, bio |-> r.bio, verified |-> r.verified,
                  followers |-> r.followers, following |-> r.following,
                  likes |-> r.likes, videos_count |-> r.videos_count,
                  profile_url |-> r.profile_url]

\* the row save_snapshot inserts for a profile
SnapshotRow(id, profile, checked_at) ==
    [id |-> id,
     username |-> PyStr(PyToStr(profile.username)),
     checked_at |-> checked_at,
     nickname |-> profile.nickname,
     bio |-> profile.bio,
     verified |-> PyInt(IF Truthy(profile.verified) THEN 1 ELSE 0),
     followers |-> AsInt(profile.followers),
     following |-> AsInt(profile.following),
     likes |-> AsInt(profile.likes),
     videos_count |-> AsInt(profile.videos_count),
     profile_url |-> IF Truthy(profile.profile_url) THEN profile.profile_url
                     ELSE PyStr(<<"https://www.tiktok.com/@">>
                                \o PyToStr(profile.username))]

\* save_snapshot without its UPDATE of watch_accounts (left to a later transaction)
SaveSnapshotWithoutUpdate(profile, n) ==
    LET username == PyToStr(profile.username)
        checked_at == utc_now_iso(n)
    IN  /\ now' = n
        /\ watch_accounts' = InsertOrIgnore(watch_accounts, username, checked_at)
        /\ snapshots' = Append(snapshots,
                               SnapshotRow(seq.snapshots + 1, profile, checked_at))
        /\ seq' = [seq EXCEPT !.snapshots = @ + 1]
        /\ UNCHANGED <<events, failures>>

\* save_snapshot(profile) at second n
save_snapshot(profile, n) ==
    LET username == PyToStr(profile.username)
        checked_at == utc_now_iso(n)
    IN  /\ now' = n
        /\ watch_accounts' =
               UpdateChecked(InsertOrIgnore(watch_accounts, username, checked_at),
                             username, checked_at, PyNone)
        /\ snapshots' = Append(snapshots,
                               SnapshotRow(seq.snapshots + 1, profile, checked_at))
        /\ seq' = [seq EXCEPT !.snapshots = @ + 1]
        /\ UNCHANGED <<events, failures>>

\* the rows record_events inserts
EventRows(username, evs, detected_at) ==
    [k \in 1..Len(evs) |->
        [id |-> seq.events + k,
         username |-> username,
         detected_at |-> detected_at,
         metric |-> evs[k].metric,
         old_value |-> IF evs[k].old_value = PyNone THEN PyNone
                       ELSE PyStr(PyToStr(evs[k].old_value)),
         new_value |-> IF evs[k].new_value = PyNone THEN PyNone
                       ELSE PyStr(PyToStr(evs[k].new_value)),
         delta |-> AsInt(evs[k].delta),
         message |-> evs[k].message]]

\* record_events(username, events) at second n
record_events(username, evs, n) ==
    IF evs = <<>> THEN UNCHANGED <<now, store>>
    ELSE /\ now' = n
         /\ events' = events \o EventRows(username, evs, utc_now_iso(n))
         /\ seq' = [seq EXCEPT !.events = @ + Len(evs)]
         /\ UNCHANGED <<watch_accounts, snapshots, failures>>

\* record_failure without its INSERT OR IGNORE: only the UPDATE and the failure row
RecordFailureWithoutInsert(username, error, n) ==
    LET checked_at == utc_now_iso(n)
    IN  /\ now' = n
        /\ watch_accounts' = UpdateChecked(watch_accounts, username, checked_at, error)
        /\ failures' = Append(failures,
                              [id |-> seq.failures + 1, username |-> username,
                               checked_at |-> checked_at, error |-> error])
        /\ seq' = [seq EXCEPT !.failures = @ + 1]
        /\ UNCHANGED <<snapshots, events>>

\* record_failure(username, error) at second n
record_failure(username, error, n) ==
    LET checked_at == utc_now_iso(n)
    IN  /\ now' = n
        /\ watch_accounts' =
               UpdateChecked(InsertOrIgnore(watch_accounts, username, checked_at),
                             username, checked_at, error)
        /\ failures' = Append(failures,
                              [id |-> seq.failures + 1, username |-> username,
                               checked_at |-> checked_at, error |-> error])
        /\ seq' = [seq EXCEPT !.failures = @ + 1]
        /\ UNCHANGED <<snapshots, events>>

(***************************************************************************)
(* monitor.py: TikTokMonitorService.  A step of a thread is one access to  *)
(* the state the threads share, with the local work that follows it.       *)
(***************************************************************************)
\* Thread.is_alive(): started and not yet finished
IsAlive(l) == pc[l] \notin {"unborn", "new", "dead"}

\* is_running without the is_alive() test
IsRunningWithoutAliveTest == thread # NoThread

\* the property is_running
is_running == thread # NoThread /\ IsAlive(thread)

\* the steps of run_once between the acquisition and the release of _run_lock
CyclePcs == {"ro_list", "ro_next"}
\* the steps of check_account after the fetch
CheckPcs == {"ca_save", "ca_events", "ca_fail"}

\* thread t is inside a cycle of run_once
InCycle(t) ==
    \/ pc[t] \in CyclePcs
    \/ pc[t] \in CheckPcs /\ frame[t].op # "check_watch_now"

\* the checks that have yet to write their snapshot or failure row
PendingChecks == {t \in Threads : pc[t] \in {"ca_save", "ca_fail"}}

\* the model lets a check begin while the tables have room for its row
CanBeginCheck == seq.snapshots + seq.failures + Cardinality(PendingChecks) < MaxRows

\* a request or a call returns to its thread's caller: a request handler goes
\* back to idle, the loop thread goes on to wait
Returned(t, r) ==
    /\ pc' = [pc EXCEPT ![t] = IF t \in Loops THEN "loop_wait" ELSE "idle"]
    /\ frame' = [frame EXCEPT ![t] = EmptyFrame]
    /\ ret' = r

\* an exception leaves the thread's outermost frame: the request fails, the
\* loop thread ends
Raised(t, op) ==
    /\ pc' = [pc EXCEPT ![t] = IF t \in Loops THEN "dead" ELSE "idle"]
    /\ frame' = [frame EXCEPT ![t] = EmptyFrame]
    /\ ret' = Ret(t, op, "raised")

\* the model lets a start() go on while a Thread object is left for it
CanCreateThread ==
    Cardinality({l \in Loops : pc[l] = "unborn"})
      > Cardinality({c \in Callers : pc[c] \in {"start_clear", "start_create"}})

\* start(), lines 106-107
StartCheck(t) ==
    /\ t \in Callers /\ pc[t] = "idle"
    /\ IF is_running
       THEN /\ ret' = Ret(t, "start", "false")
            /\ UNCHANGED <<pc, frame>>
       ELSE /\ CanCreateThread
            /\ pc' = [pc EXCEPT ![t] = "start_clear"]
            /\ frame' = [frame EXCEPT ![t].op = "start"]
            /\ ret' = NoRet
    /\ UNCHANGED <<service, now, store, midflight>>

\* start(), line 108
StartClear(t) ==
    /\ pc[t] = "start_clear"
    /\ stop_event' = FALSE
    /\ pc' = [pc EXCEPT ![t] = "start_create"]
    /\ ret' = NoRet
    /\ UNCHANGED <<interval_seconds, frame, run_lock, thread, last_run_started_at,
                   last_run_finished_at, last_run_summary, now, store,
                   midflight>>

\* start(), line 109: a new Thread object, not yet started
StartCreate(t) ==
    /\ pc[t] = "start_create"
    /\ \E l \in Loops :
          /\ pc[l] = "unborn"
          /\ \A k \in Loops : pc[k] = "unborn" => l <= k
          /\ thread' = l
          /\ pc' = [pc EXCEPT ![t] = "start_run", ![l] = "new"]
    /\ ret' = NoRet
    /\ UNCHANGED <<interval_seconds, frame, stop_event, run_lock, last_run_started_at,
                   last_run_finished_at, last_run_summary, now, store,
                   midflight>>

\* start(), lines 110-111: self._thread.start() raises RuntimeError for a
\* thread that was started before
StartRun(t) ==
    /\ pc[t] = "start_run"
    /\ IF pc[thread] = "new"
       THEN /\ pc' = [pc EXCEPT ![t] = "idle", ![thread] = "loop_test"]
            /\ frame' = [frame EXCEPT ![t] = EmptyFrame]
            /\ ret' = Ret(t, "start", "true")
       ELSE Raised(t, "start")
    /\ UNCHANGED <<service, now, store, midflight>>

\* stop(), lines 114-115
StopCheck(t) ==
    /\ t \in Callers /\ pc[t] = "idle"
    /\ IF ~is_running
       THEN /\ ret' = Ret(t, "stop", "false")
            /\ UNCHANGED <<pc, frame>>
       ELSE /\ pc' = [pc EXCEPT ![t] = "stop_set"]
            /\ frame' = [frame EXCEPT ![t].op = "stop"]
            /\ ret' = NoRet
    /\ UNCHANGED <<service, now, store, midflight>>

\* stop(), line 116
StopSet(t) ==
    /\ pc[t] = "stop_set"
    /\ stop_event' = TRUE
    /\ midflight' = midflight \cup {l \in Loops : InCycle(l)}
    /\ pc' = [pc EXCEPT ![t] = "stop_join"]
    /\ ret' = NoRet
    /\ UNCHANGED <<interval_seconds, frame, run_lock, thread, last_run_started_at,
                   last_run_finished_at, last_run_summary, now, store>>

\* stop(), lines 117-118: the call of self._thread.join, which raises
\* RuntimeError for a thread that was not started
StopJoinCall(t) ==
    /\ pc[t] = "stop_join"
    /\ IF pc[thread] = "new"
       THEN Raised(t, "stop")
       ELSE /\ pc' = [pc EXCEPT ![t] = "stop_wait"]
            /\ frame' = [frame EXCEPT ![t].joined = thread]
            /\ ret' = NoRet
    /\ UNCHANGED <<service, now, store, midflight>>

\* a join that returns at once, finished thread or not
JoinReturnsAtOnce(l) == TRUE

\* Thread.join returns before its timeout exactly when the thread has finished
JoinCompletes(l) == pc[l] = "dead"

\* stop(), lines 118-119: join(timeout=5) returns, the thread finished or the
\* five seconds over
StopJoinReturn(t) ==
    /\ pc[t] = "stop_wait"
    /\ \E timed_out \in BOOLEAN :
          /\ IF timed_out THEN pc[frame[t].joined] # "dead"
             ELSE JoinCompletes(frame[t].joined)
          /\ Returned(t, [Ret(t, "stop", "true") EXCEPT
                             !.joined = frame[t].joined, !.timed_out = timed_out])
    /\ UNCHANGED <<service, now, store, midflight>>

\* _run_loop, line 122
LoopTest(l) ==
    /\ l \in Loops /\ pc[l] = "loop_test"
    /\ pc' = [pc EXCEPT ![l] = IF stop_event THEN "dead" ELSE "ro_acquire"]
    /\ midflight' = IF stop_event THEN midflight \ {l} ELSE midflight
    /\ ret' = NoRet
    /\ UNCHANGED <<frame, service, now, store>>

\* _run_loop, line 124: the wait ends, on the signal or on the timeout
LoopWait(l) ==
    /\ l \in Loops /\ pc[l] = "loop_wait"
    /\ pc' = [pc EXCEPT ![l] = "loop_test"]
    /\ ret' = NoRet
    /\ UNCHANGED <<frame, service, now, store, midflight>>

\* _run_loop, line 124, with its timing: the call of
\* self._stop_event.wait(self.interval_seconds) reads the interval and begins
\* to wait
WaitBegin(l) ==
    /\ l \in Loops /\ pc[l] = "loop_wait"
    /\ pc' = [pc EXCEPT ![l] = "waiting"]
    /\ frame' = [frame EXCEPT ![l].timeout = interval_seconds, ![l].waited = 0]
    /\ ret' = NoRet
    /\ UNCHANGED <<service, now, store, midflight>>

\* time passes for a thread that waits
WaitTick(l) ==
    /\ l \in Loops /\ pc[l] = "waiting"
    /\ frame[l].waited < frame[l].timeout
    /\ frame' = [frame EXCEPT ![l].waited = @ + MinInterval]
    /\ ret' = NoRet
    /\ UNCHANGED <<pc, service, now, store, midflight>>

\* a wait that looks up the interval again when it decides to wake
WaitEndRereadsInterval(l) ==
    /\ l \in Loops /\ pc[l] = "waiting"
    /\ stop_event \/ frame[l].waited >= interval_seconds
    /\ pc' = [pc EXCEPT ![l] = "loop_test"]
    /\ frame' = [frame EXCEPT ![l].timeout = 0, ![l].waited = 0]
    /\ ret' = NoRet
    /\ UNCHANGED <<service, now, store, midflight>>

\* a wait that only its timeout ends
WaitEndOnTimeoutOnly(l) ==
    /\ l \in Loops /\ pc[l] = "waiting"
    /\ frame[l].waited >= frame[l].timeout
    /\ pc' = [pc EXCEPT ![l] = "loop_test"]
    /\ frame' = [frame EXCEPT ![l].timeout = 0, ![l].waited = 0]
    /\ ret' = NoRet
    /\ UNCHANGED <<service, now, store, midflight>>

\* Event.wait(timeout) returns: the signal is set or the timeout it was called
\* with is over
WaitEnd(l) ==
    /\ l \in Loops /\ pc[l] = "waiting"
    /\ stop_event \/ frame[l].waited >= frame[l].timeout
    /\ pc' = [pc EXCEPT ![l] = "loop_test"]
    /\ frame' = [frame EXCEPT ![l].timeout = 0, ![l].waited = 0]
    /\ ret' = NoRet
    /\ UNCHANGED <<service, now, store, midflight>>

\* thread t is at its call of run_once: the loop at line 123, a request
\* handler at app.py's action run_monitor_now
CallsRunOnce(t) == IF t \in Loops THEN pc[t] = "ro_acquire" ELSE pc[t] = "idle"

\* the summary run_once builds in lines 143-148
Summary(t) ==
    [status |-> "ok", accounts |-> Len(frame[t].accounts),
     checked |-> frame[t].checked, failed |-> frame[t].failed]

\* the answer of a run_once that found the guard taken
BusyAnswer(t) ==
    [Ret(t, "run_once", "busy") EXCEPT
        !.summary = [status |-> "busy", accounts |-> 0, checked |-> 0, failed |-> 0]]

\* run_once without its guard: the cycle begins whether _run_lock is held or not
RunOnceAcquireUnguarded(t) ==
    /\ CallsRunOnce(t)
    /\ run_lock' = TRUE
    /\ \E n \in ClockReadings :
          /\ now' = n
          /\ last_run_started_at' = utc_now_iso(n)
    /\ pc' = [pc EXCEPT ![t] = "ro_list"]
    /\ frame' = [frame EXCEPT ![t].op = "run_once"]
    /\ ret' = NoRet
    /\ UNCHANGED <<interval_seconds, stop_event, thread, last_run_finished_at, last_run_summary,
                   store, midflight>>

\* run_once with the start timestamp taken before the guard is tried, and the
\* busy answer stored as the last summary
RunOnceAcquireStampsFirst(t) ==
    /\ CallsRunOnce(t)
    /\ \E n \in ClockReadings :
          /\ now' = n
          /\ last_run_started_at' = utc_now_iso(n)
    /\ IF run_lock
       THEN /\ Returned(t, BusyAnswer(t))
            /\ last_run_summary' = BusyAnswer(t).summary
            /\ UNCHANGED <<interval_seconds, stop_event, run_lock, thread, last_run_finished_at,
                           store, midflight>>
       ELSE /\ run_lock' = TRUE
            /\ pc' = [pc EXCEPT ![t] = "ro_list"]
            /\ frame' = [frame EXCEPT ![t].op = "run_once"]
            /\ ret' = NoRet
            /\ UNCHANGED <<interval_seconds, stop_event, thread, last_run_finished_at,
                           last_run_summary, store, midflight>>

\* run_once, lines 127-130: the non-blocking acquisition of _run_lock, the busy
\* answer when it fails and the start timestamp when it succeeds
RunOnceAcquire(t) ==
    /\ CallsRunOnce(t)
    /\ IF run_lock
       THEN /\ Returned(t, BusyAnswer(t))
            /\ UNCHANGED <<service, now, store, midflight>>
       ELSE /\ run_lock' = TRUE
            /\ \E n \in ClockReadings :
                  /\ now' = n
                  /\ last_run_started_at' = utc_now_iso(n)
            /\ pc' = [pc EXCEPT ![t] = "ro_list"]
            /\ frame' = [frame EXCEPT ![t].op = "run_once"]
            /\ ret' = NoRet
            /\ UNCHANGED <<interval_seconds, stop_event, thread, last_run_finished_at,
                           last_run_summary, store, midflight>>

\* run_once, lines 132-134
RunOnceList(t) ==
    /\ pc[t] = "ro_list"
    /\ \E accounts \in list_watch_accounts(TRUE) :
          frame' = [frame EXCEPT ![t].accounts = accounts, ![t].idx = 1,
                                 ![t].checked = 0, ![t].failed = 0]
    /\ pc' = [pc EXCEPT ![t] = "ro_next"]
    /\ ret' = NoRet
    /\ UNCHANGED <<service, now, store, midflight>>

\* check_account, lines 156-164 up to the store's write: the previous snapshot
\* is read and the Profile Fetcher answers
CheckBegins(t, username) ==
    /\ CanBeginCheck
    /\ \E o \in FetchOutcomes(username) :
          /\ frame' = [frame EXCEPT
                          ![t].op = IF pc[t] = "idle" THEN "check_watch_now" ELSE @,
                          ![t].username = username,
                          ![t].previous = get_latest_snapshot(username),
                          ![t].current = o.profile,
                          ![t].error = o.text]
          /\ pc' = [pc EXCEPT ![t] = IF o.kind = "ok" THEN "ca_save" ELSE "ca_fail"]
    /\ ret' = NoRet
    /\ UNCHANGED <<service, now, store, midflight>>

\* run_once reading the watchlist again before each check instead of walking
\* the list it read at line 132
RunOnceCheckRereads(t) ==
    /\ pc[t] = "ro_next"
    /\ CanBeginCheck
    /\ \E accounts \in list_watch_accounts(TRUE) :
          /\ frame[t].idx <= Len(accounts)
          /\ \E o \in FetchOutcomes(accounts[frame[t].idx]) :
                /\ frame' = [frame EXCEPT
                                ![t].accounts = accounts,
                                ![t].username = accounts[frame[t].idx],
                                ![t].previous = get_latest_snapshot(accounts[frame[t].idx]),
                                ![t].current = o.profile,
                                ![t].error = o.text]
                /\ pc' = [pc EXCEPT ![t] = IF o.kind = "ok" THEN "ca_save" ELSE "ca_fail"]
    /\ ret' = NoRet
    /\ UNCHANGED <<service, now, store, midflight>>

\* run_once, lines 136-137: the call of check_account for the next account
RunOnceCheck(t) ==
    /\ pc[t] = "ro_next"
    /\ frame[t].idx <= Len(frame[t].accounts)
    /\ CheckBegins(t, frame[t].accounts[frame[t].idx])

\* a finally clause that stamps the finish time and keeps the guard
FinallyWithoutRelease ==
    /\ \E n \in ClockReadings :
          /\ now' = n
          /\ last_run_finished_at' = utc_now_iso(n)
    /\ run_lock' = run_lock

\* run_once, lines 151-153: the finally clause
RunOnceFinally ==
    /\ \E n \in ClockReadings :
          /\ now' = n
          /\ last_run_finished_at' = utc_now_iso(n)
    /\ run_lock' = FALSE

\* run_once, lines 143-153: after the last account, the summary, the finally
\* clause and the return
RunOnceFinish(t) ==
    /\ pc[t] = "ro_next"
    /\ frame[t].idx > Len(frame[t].accounts)
    /\ last_run_summary' = Summary(t)
    /\ RunOnceFinally
    /\ Returned(t, [Ret(t, "run_once", "ok") EXCEPT !.summary = Summary(t)])
    /\ UNCHANGED <<interval_seconds, stop_event, thread, last_run_started_at, store, midflight>>

\* check_account returns ok: to run_once, lines 138-141, or to the request
CheckReturns(t, ok) ==
    IF frame[t].op = "check_watch_now"
    THEN Returned(t, Ret(t, "check_account", IF ok THEN "true" ELSE "false"))
    ELSE /\ pc' = [pc EXCEPT ![t] = "ro_next"]
         /\ frame' = [frame EXCEPT ![t].idx = @ + 1,
                                   ![t].checked = IF ok THEN @ + 1 ELSE @,
                                   ![t].failed = IF ok THEN @ ELSE @ + 1,
                                   ![t].username = <<>>,
                                   ![t].previous = NoRow,
                                   ![t].current = NoProfile,
                                   ![t].error = PyNone]
         /\ ret' = Ret(t, "check_account", IF ok THEN "true" ELSE "false")

\* check_account, lines 160-161 and 163-164
CheckFailed(t) ==
    /\ pc[t] = "ca_fail"
    /\ \E n \in ClockReadings : record_failure(frame[t].username, frame[t].error, n)
    /\ CheckReturns(t, FALSE)
    /\ UNCHANGED <<service, midflight>>

\* check_account, line 166
CheckSave(t) ==
    /\ pc[t] = "ca_save"
    /\ \E n \in ClockReadings : save_snapshot(frame[t].current, n)
    /\ pc' = [pc EXCEPT ![t] = "ca_events"]
    /\ ret' = NoRet
    /\ UNCHANGED <<frame, service, midflight>>

\* check_account, lines 167-169
CheckEvents(t) ==
    /\ pc[t] = "ca_events"
    /\ \E n \in ClockReadings :
          record_events(PyToStr(frame[t].current.username),
                        detect_profile_changes(frame[t].previous, frame[t].current), n)
    /\ CheckReturns(t, TRUE)
    /\ UNCHANGED <<service, midflight>>

(***************************************************************************)
(* app.py: the requests of the dashboard that reach the monitor.           *)
(***************************************************************************)
\* index, action add_watch
AddWatch(t, raw) ==
    /\ t \in Callers /\ pc[t] = "idle"
    /\ LET watch_username == Strip(raw)
       IN  IF ValidUsername(watch_username)
           THEN /\ \E n \in ClockReadings :
                      /\ now' = n
                      /\ watch_accounts' =
                             add_watch_account(watch_accounts,
                                               normalize_username(watch_username),
                                               utc_now_iso(n))
                /\ ret' = Ret(t, "add_watch", "success")
           ELSE /\ ret' = Ret(t, "add_watch", "error")
                /\ UNCHANGED <<now, watch_accounts>>
    /\ UNCHANGED <<pc, frame, service, snapshots, events, failures, seq,
                   midflight>>

\* index, action remove_watch: rowcount > 0 when a row has the username
RemoveWatch(t, raw) ==
    /\ t \in Callers /\ pc[t] = "idle"
    /\ LET watch_username == AppHandle(raw)
       IN  IF watch_username = <<>>
           THEN /\ ret' = Ret(t, "remove_watch", "missing")
                /\ UNCHANGED watch_accounts
           ELSE /\ watch_accounts' =
                       deactivate_watch_account(watch_accounts, watch_username)
                /\ ret' = Ret(t, "remove_watch",
                              IF HasAccount(watch_username) THEN "success" ELSE "error")
    /\ UNCHANGED <<pc, frame, service, now, snapshots, events, failures, seq,
                   midflight>>

\* index, action check_watch_now: the call of monitor.check_account
CheckWatchNow(t, raw) ==
    /\ t \in Callers /\ pc[t] = "idle"
    /\ IF AppHandle(raw) = <<>>
       THEN /\ ret' = Ret(t, "check_watch_now", "missing")
            /\ UNCHANGED <<pc, frame, service, now, store, midflight>>
       ELSE CheckBegins(t, AppHandle(raw))

\* SETTING_DEFINITIONS["monitor_interval_seconds"]["max"]
MaxInterval == 86400

\* the monitor_interval_seconds values the settings form carries: below the
\* minimum, the minimum, twice the minimum
SettingInputs == {0, MinInterval, 2 * MinInterval}

\* index, action save_settings, for monitor_interval_seconds: a value out of
\* range is refused, any other is applied by _apply_runtime_settings
SaveSettings(t, value) ==
    /\ t \in Callers /\ pc[t] = "idle"
    /\ IF value < MinInterval \/ value > MaxInterval
       THEN /\ ret' = Ret(t, "save_settings", "error")
            /\ UNCHANGED interval_seconds
       ELSE /\ ret' = Ret(t, "save_settings", "success")
            /\ interval_seconds' = value
    /\ UNCHANGED <<pc, frame, stop_event, run_lock, thread, last_run_started_at,
                   last_run_finished_at, last_run_summary, now, store, midflight>>

\* index, action reset_monitor_data, lines 266-269
ResetCheck(t) ==
    /\ t \in Callers /\ pc[t] = "idle"
    /\ IF is_running
       THEN /\ ret' = Ret(t, "reset_monitor_data", "error")
            /\ UNCHANGED <<pc, frame>>
       ELSE /\ pc' = [pc EXCEPT ![t] = "reset_events"]
            /\ frame' = [frame EXCEPT ![t].op = "reset_monitor_data"]
            /\ ret' = NoRet
    /\ UNCHANGED <<service, now, store, midflight>>

\* clear_monitor_data: DELETE FROM events, committed by itself
ResetDeleteEvents(t) ==
    /\ pc[t] = "reset_events"
    /\ events' = <<>>
    /\ pc' = [pc EXCEPT ![t] = "reset_failures"]
    /\ ret' = NoRet
    /\ UNCHANGED <<frame, service, now, watch_accounts, snapshots, failures,
                   seq, midflight>>

\* clear_monitor_data: DELETE FROM failures, committed by itself
ResetDeleteFailures(t) ==
    /\ pc[t] = "reset_failures"
    /\ failures' = <<>>
    /\ pc' = [pc EXCEPT ![t] = "reset_snapshots"]
    /\ ret' = NoRet
    /\ UNCHANGED <<frame, service, now, watch_accounts, snapshots, events,
                   seq, midflight>>

\* clear_monitor_data: DELETE FROM snapshots, committed by itself
ResetDeleteSnapshots(t) ==
    /\ pc[t] = "reset_snapshots"
    /\ snapshots' = <<>>
    /\ pc' = [pc EXCEPT ![t] = "reset_accounts"]
    /\ ret' = NoRet
    /\ UNCHANGED <<frame, service, now, watch_accounts, events, failures, seq,
                   midflight>>

\* clear_monitor_data: DELETE FROM watch_accounts, then the request's answer
ResetDeleteAccounts(t) ==
    /\ pc[t] = "reset_accounts"
    /\ watch_accounts' = {}
    /\ Returned(t, Ret(t, "reset_monitor_data", "success"))
    /\ UNCHANGED <<service, now, snapshots, events, failures, seq, midflight>>

(***************************************************************************)
(* A store call of run_once or check_account fails: sqlite3 raises (the    *)
(* database is locked by another writer, the disk is full) and its         *)
(* transaction writes nothing.  Neither function catches the error.        *)
(***************************************************************************)
\* the store call thread t is about to make, inside a cycle
AtStoreCallInCycle(t) ==
    \/ pc[t] \in {"ro_list", "ro_next"} /\ frame[t].idx <= Len(frame[t].accounts)
    \/ /\ frame[t].op # "check_watch_now"
       /\ \/ pc[t] \in {"ca_save", "ca_fail"}
          \/ /\ pc[t] = "ca_events"
             /\ detect_profile_changes(frame[t].previous, frame[t].current) # <<>>

\* the error leaves check_account and run_once through the finally clause
StoreRaisesInCycle(t) ==
    /\ AtStoreCallInCycle(t)
    /\ RunOnceFinally
    /\ Raised(t, "run_once")
    /\ UNCHANGED <<interval_seconds, stop_event, thread, last_run_started_at, last_run_summary,
                   store, midflight>>

\* the error leaves the check_account a request called
StoreRaisesInCheck(t) ==
    /\ \/ t \in Callers /\ pc[t] = "idle"
       \/ /\ frame[t].op = "check_watch_now"
          /\ \/ pc[t] \in {"ca_save", "ca_fail"}
             \/ /\ pc[t] = "ca_events"
                /\ detect_profile_changes(frame[t].previous, frame[t].current) # <<>>
    /\ Raised(t, "check_account")
    /\ UNCHANGED <<service, now, store, midflight>>

(***************************************************************************)
(* The specifications.  Flask serves each request on a thread of its own;  *)
(* the steps are grouped by the call they carry on.                        *)
(***************************************************************************)
\* the steps that carry on a call of start() or stop()
LifecycleSteps(t) ==
    \/ StartClear(t) \/ StartCreate(t) \/ StartRun(t)
    \/ StopSet(t) \/ StopJoinCall(t) \/ StopJoinReturn(t)

\* the loop thread's call of run_once, _run_loop line 123
LoopRunOnce(l) == l \in Loops /\ RunOnceAcquire(l)

\* index, action run_monitor_now: the call of monitor.run_once
RunMonitorNow(t) == t \in Callers /\ RunOnceAcquire(t)

\* the steps of the loop thread outside the cycle
LoopSteps(l) == LoopTest(l) \/ LoopWait(l) \/ LoopRunOnce(l)

\* the steps that carry on a cycle or a check
CycleSteps(t) ==
    \/ RunOnceList(t) \/ RunOnceCheck(t) \/ RunOnceFinish(t)
    \/ CheckFailed(t) \/ CheckSave(t) \/ CheckEvents(t)

\* the steps that carry on clear_monitor_data
ResetSteps(t) ==
    \/ ResetDeleteEvents(t) \/ ResetDeleteFailures(t)
    \/ ResetDeleteSnapshots(t) \/ ResetDeleteAccounts(t)

\* the request handler that serves the operator's start, stop and add_watch
Operator == CHOOSE c \in Callers : \A d \in Callers : c <= d

\* The scheduler: one handler starts and stops the monitor and fills the
\* watchlist while the others run cycles on demand and reset the data.
NextSched ==
    \/ StartCheck(Operator) \/ StopCheck(Operator)
    \/ \E raw \in RawInputs : AddWatch(Operator, raw)
    \/ \E t \in Callers \ {Operator} : RunMonitorNow(t) \/ ResetCheck(t)
    \/ \E t \in Threads :
          LifecycleSteps(t) \/ LoopSteps(t) \/ CycleSteps(t) \/ ResetSteps(t)

SpecSched == Init /\ [][NextSched]_vars

\* The scheduler with every handler starting and stopping the monitor.
NextRace ==
    \/ \E t \in Callers : StartCheck(t) \/ StopCheck(t)
    \/ \E raw \in RawInputs : AddWatch(Operator, raw)
    \/ \E t \in Threads : LifecycleSteps(t) \/ LoopSteps(t) \/ CycleSteps(t)

SpecRace == Init /\ [][NextRace]_vars

\* The monitor stopped: every handler checks accounts, runs cycles, edits the
\* watchlist and resets the data.
NextChecks ==
    \/ \E t \in Callers, raw \in RawInputs :
          AddWatch(t, raw) \/ RemoveWatch(t, raw) \/ CheckWatchNow(t, raw)
    \/ \E t \in Callers :
          RunMonitorNow(t) \/ ResetCheck(t) \/ CycleSteps(t) \/ ResetSteps(t)

SpecChecks == Init /\ [][NextChecks]_vars

\* the watch_username values the requests carry where the handle's form matters:
\* with "@" and an upper-case letter, canonical, and too short
HandleInputs == {<<"@", "A", "b">>, <<"a", "b">>, <<"b">>}

\* The watchlist: every handler adds, removes and checks handles of every form
\* and runs cycles, the monitor stopped.
NextRegistry ==
    \/ \E t \in Callers, raw \in HandleInputs :
          AddWatch(t, raw) \/ RemoveWatch(t, raw) \/ CheckWatchNow(t, raw)
    \/ \E t \in Callers : RunMonitorNow(t) \/ CycleSteps(t)

SpecRegistry == Init /\ [][NextRegistry]_vars

\* the model lets the detector's specification make this many checks
MaxChecks == 3

\* the followerCount values of a page: absent, a number, a number in a string,
\* text that int() refuses
DetectFollowers == {PyNone, PyInt(100), PyStr(<<"1", "5", "0">>), PyStr(<<"x">>)}

\* the heartCount values of a page
DetectLikes == {PyInt(1), PyInt(2)}

\* the signature values of a page
DetectBios == {PyNone, PyStr(<<"b">>)}

\* the profiles fetch_tiktok_profile returns for an account as its page changes
DetectProfiles(username) ==
    {[Profile(username, username, f) EXCEPT !.likes = l, !.bio = b,
                                             !.verified = PyBool(v)] :
        f \in DetectFollowers, l \in DetectLikes, b \in DetectBios, v \in BOOLEAN}

\* check_account, lines 156-158, with a fetch that returns `current`
CheckFetched(t, username, current) ==
    /\ t \in Callers /\ pc[t] = "idle"
    /\ seq.snapshots < MaxChecks
    /\ frame' = [frame EXCEPT ![t].op = "check_watch_now",
                              ![t].username = username,
                              ![t].previous = get_latest_snapshot(username),
                              ![t].current = current,
                              ![t].error = PyNone]
    /\ pc' = [pc EXCEPT ![t] = "ca_save"]
    /\ ret' = NoRet
    /\ UNCHANGED <<service, now, store, midflight>>

\* The change detector: one handler checks one account again and again while
\* the account's page changes.
NextDetect ==
    \/ \E current \in DetectProfiles(<<"a", "b">>) :
          CheckFetched(Operator, <<"a", "b">>, current)
    \/ CheckSave(Operator)
    \/ CheckEvents(Operator)

SpecDetect == Init /\ [][NextDetect]_vars

\* the uniqueId values the page of @ab may carry: the handle as requested, or
\* the same handle in the account's own spelling
AliasIds == {<<"a", "b">>, <<"A", "b">>}

\* the profiles fetch_tiktok_profile returns for the handle: "username" is the
\* page's uniqueId, verbatim
AliasProfiles(username) ==
    {Profile(u, normalize_username(username), f) : u \in AliasIds, f \in FollowerCounts}

\* The fetched handle: the handlers add and check one account whose page
\* carries its handle in either spelling; a fetch may also fail.
NextAlias ==
    \/ \E t \in Callers : AddWatch(t, <<"a", "b">>)
    \/ \E t \in Callers : CheckWatchNow(t, <<"a", "b">>)
    \/ \E t \in Callers, current \in AliasProfiles(<<"a", "b">>) :
          CheckFetched(t, <<"a", "b">>, current)
    \/ \E t \in Callers : CheckFailed(t) \/ CheckSave(t) \/ CheckEvents(t)

SpecAlias == Init /\ [][NextAlias]_vars

\* The timed loop: one handler starts and stops the monitor, the others change
\* the interval, and the loop thread's waits take their time.
NextInterval ==
    \/ StartCheck(Operator) \/ StopCheck(Operator)
    \/ \E t \in Callers \ {Operator}, value \in SettingInputs : SaveSettings(t, value)
    \/ \E t \in Threads : LifecycleSteps(t)
    \/ \E l \in Loops :
          \/ LoopTest(l) \/ LoopRunOnce(l) \/ RunOnceList(l) \/ RunOnceFinish(l)
          \/ WaitBegin(l) \/ WaitTick(l) \/ WaitEnd(l)

SpecInterval == Init /\ [][NextInterval]_vars

\* the steps of loop thread l that need nothing but the processor: the loop
\* test, the call of run_once, the cycle, the call of wait and its return
LoopProgress(l) ==
    \/ LoopTest(l) \/ LoopRunOnce(l) \/ RunOnceList(l) \/ RunOnceFinish(l)
    \/ WaitBegin(l) \/ WaitEnd(l)

\* The timed loop with every loop thread scheduled fairly; time itself is not
\* required to pass.
SpecStop ==
    /\ Init
    /\ [][NextInterval]_vars
    /\ \A l \in Loops : WF_vars(LoopProgress(l))

\* The scheduler with a store whose calls may fail.
NextFault ==
    \/ StartCheck(Operator) \/ StopCheck(Operator)
    \/ \E raw \in RawInputs : AddWatch(Operator, raw)
    \/ \E t \in Callers \ {Operator}, raw \in RawInputs : CheckWatchNow(t, raw)
    \/ \E t \in Threads : LifecycleSteps(t) \/ LoopSteps(t) \/ CycleSteps(t)
    \/ \E t \in Threads : StoreRaisesInCycle(t) \/ StoreRaisesInCheck(t)

SpecFault == Init /\ [][NextFault]_vars

(***************************************************************************)
(* The properties.                                                         *)
(***************************************************************************)
\* the threads that are executing a cycle
Cycling == {t \in Threads : InCycle(t)}

\* C1: in every reachable state at most one cycle, the section of run_once
\* between the acquisition and the release of the run guard, is executing,
\* whichever of the loop thread and the on-demand callers began it.
SingleFlight == Cardinality(Cycling) <= 1

\* C1: the loop thread is in its cycle and an on-demand caller was turned away
SingleFlightWitness ==
    /\ \E l \in Loops : InCycle(l)
    /\ ret.op = "run_once" /\ ret.status = "busy" /\ ret.by \in Callers

\* thread t takes the step that calls run_once
InvokesRunOnce(t) ==
    /\ CallsRunOnce(t)
    /\ pc'[t] = "ro_list" \/ (ret'.by = t /\ ret'.op = "run_once")

\* C2: a run_once invoked while another thread's cycle is in flight answers
\* "busy" in that same step and has no side effect: its frame stays empty (no
\* account list is read, no check begun), the four tables and the id counters
\* are unchanged, and so are the guard, the stop signal, the thread and
\* last_run_started_at, last_run_finished_at and last_run_summary.
BusyHasNoEffect ==
    [][\A t \in Threads :
          (InvokesRunOnce(t) /\ Cycling \ {t} # {}) =>
              /\ ret' = BusyAnswer(t)
              /\ pc'[t] = IF t \in Loops THEN "loop_wait" ELSE "idle"
              /\ frame' = frame
              /\ frame'[t] = EmptyFrame
              /\ store' = store
              /\ service' = service
              /\ now' = now]_vars

\* C2: the loop thread was turned away by an on-demand caller's cycle, after a
\* cycle had stored its summary
BusyHasNoEffectWitness ==
    /\ \E c \in Callers : InCycle(c)
    /\ ret.op = "run_once" /\ ret.status = "busy" /\ ret.by \in Loops
    /\ last_run_summary # NoSummary

\* C3: no error raised during an account check, an error of a store read or
\* write of check_account included, leaves check_account or run_once: neither
\* call ever raises, so no loop thread is ended by an account's check.
NoErrorEscapes ==
    /\ ~(ret.status = "raised" /\ ret.op \in {"run_once", "check_account"})
    /\ \A l \in Loops : ~(pc[l] = "dead" /\ ret.by = l /\ ret.status = "raised")

\* thread t takes the step that ends a check whose fetch failed
FailedCheckEnds(t) == pc[t] = "ca_fail" /\ pc'[t] # "ca_fail"

\* the last-error values the registry holds for handle h
LastErrorsOf(accounts, h) == {r.last_error : r \in {x \in accounts : x.username = h}}

\* C4: when the Profile Fetcher fails during check_account(h), with a scrape
\* error or with any other exception, the check answers false, appends exactly
\* one failure record, for h and carrying the error text, sets the registry's
\* last-error of h to that text and writes no snapshot and no event.
FetchFailureIsRecorded ==
    [][\A t \in Threads :
          FailedCheckEnds(t) =>
              LET h == frame[t].username
                  text == frame[t].error
              IN  /\ text \in {o.text : o \in {x \in FetchOutcomes(h) : x.kind # "ok"}}
                  /\ ret' = Ret(t, "check_account", "false")
                  /\ Len(failures') = Len(failures) + 1
                  /\ SubSeq(failures', 1, Len(failures)) = failures
                  /\ failures'[Len(failures')].username = h
                  /\ failures'[Len(failures')].error = text
                  /\ LastErrorsOf(watch_accounts', h) = {text}
                  /\ snapshots' = snapshots
                  /\ events' = events]_vars

\* C4: a check of a handle the registry did not hold failed with an exception
\* that is no scrape error, and its failure record is the last of the log
FetchFailureIsRecordedWitness ==
    /\ ret.op = "check_account" /\ ret.status = "false"
    /\ failures # <<>>
    /\ failures[Len(failures)].error = UnexpectedErrorText("ConnectionError", "timed out")
    /\ LastErrorsOf(watch_accounts, failures[Len(failures)].username)
         = {UnexpectedErrorText("ConnectionError", "timed out")}
    /\ snapshots = <<>>

\* thread t takes the step that saves the snapshot of a first observation
FirstSnapshotSaved(t) ==
    pc[t] = "ca_save" /\ pc'[t] # "ca_save" /\ frame[t].previous = NoRow

\* thread t takes the step that ends a successful first observation
FirstObservationEnds(t) ==
    pc[t] = "ca_events" /\ pc'[t] # "ca_events" /\ frame[t].previous = NoRow

\* C5: the first observation of an account is a baseline: a successful check
\* that found no prior snapshot persists exactly one snapshot, the fetched
\* profile's, clears the last-error of the registry entry of the snapshot's
\* account, writes zero events (the detector returns the empty list for an
\* absent previous snapshot) and answers true.
FirstObservationIsBaseline ==
    [][\A t \in Threads :
          /\ FirstSnapshotSaved(t) =>
                /\ Len(snapshots') = Len(snapshots) + 1
                /\ SubSeq(snapshots', 1, Len(snapshots)) = snapshots
                /\ snapshots'[Len(snapshots')].username = frame[t].current.username
                /\ snapshots'[Len(snapshots')].followers = frame[t].current.followers
                /\ LastErrorsOf(watch_accounts', PyToStr(frame[t].current.username))
                     = {PyNone}
                /\ events' = events /\ failures' = failures
          /\ FirstObservationEnds(t) =>
                /\ detect_profile_changes(frame[t].previous, frame[t].current) = <<>>
                /\ events' = events
                /\ snapshots' = snapshots /\ failures' = failures
                /\ watch_accounts' = watch_accounts
                /\ ret' = Ret(t, "check_account", "true")]_vars

\* C5: an account whose earlier check failed was observed for the first time:
\* one snapshot, no event, and its last-error, set by the failure, cleared
FirstObservationIsBaselineWitness ==
    /\ ret.op = "check_account" /\ ret.status = "true"
    /\ Len(snapshots) = 1 /\ events = <<>>
    /\ \E i \in 1..Len(failures) : PyStr(failures[i].username) = snapshots[1].username
    /\ LastErrorsOf(watch_accounts, PyToStr(snapshots[1].username)) = {PyNone}

\* the scheduler is Running: the thread it tracks was started and has not ended
Running ==
    /\ thread \in Loops
    /\ pc[thread] \in {"loop_test", "loop_wait", "ro_acquire"} \cup CyclePcs \cup CheckPcs

InvokesStart(t) ==
    pc[t] = "idle" /\ (pc'[t] = "start_clear" \/ (ret'.by = t /\ ret'.op = "start"))
InvokesStop(t) ==
    pc[t] = "idle" /\ (pc'[t] = "stop_set" \/ (ret'.by = t /\ ret'.op = "stop"))

\* a call answers false and changes nothing
AnswersFalse(t, op) ==
    /\ ret' = Ret(t, op, "false")
    /\ pc' = pc /\ frame' = frame
    /\ service' = service /\ store' = store

\* C7: the initial state is Stopped; start() called while Running answers
\* false and leaves the thread, the stop signal and all else as they were;
\* stop() called while Stopped answers false and leaves the stop signal and
\* all else as they were; and when start() answers true the scheduler is
\* Running, so that a start() that follows at once answers false.
PreconditionViolationsChangeNothing ==
    /\ ~Running
    /\ [][\A t \in Callers :
             /\ (InvokesStart(t) /\ Running) => AnswersFalse(t, "start")
             /\ (InvokesStart(t) /\ ~Running) => pc'[t] = "start_clear"
             /\ (InvokesStop(t) /\ ~Running) => AnswersFalse(t, "stop")
             /\ (InvokesStop(t) /\ Running) => pc'[t] = "stop_set"
             /\ (ret'.by = t /\ ret'.op = "start" /\ ret'.status = "true") => Running']_vars

\* C7: start() was refused while the scheduler, stopped and started again
\* before, was Running
PreconditionViolationsChangeNothingWitness ==
    /\ ret.op = "start" /\ ret.status = "false"
    /\ Running
    /\ \E l \in Loops : pc[l] = "dead"

\* C8: a stop never aborts a cycle.  A loop thread whose cycle the stop signal
\* met leaves that cycle only after the last account of its list, storing the
\* summary, and begins no further cycle.
StopNeverAbortsCycle ==
    [][\A l \in midflight :
          /\ (InCycle(l) /\ ~InCycle(l)') =>
                /\ frame[l].idx > Len(frame[l].accounts)
                /\ frame[l].checked + frame[l].failed = Len(frame[l].accounts)
                /\ last_run_summary' = Summary(l)
          /\ ~(~InCycle(l) /\ InCycle(l)')]_vars

\* a reset's step deletes rows
RowsDeleted ==
    \/ Len(events') < Len(events) \/ Len(failures') < Len(failures)
    \/ Len(snapshots') < Len(snapshots)
    \/ \E r \in watch_accounts : \A q \in watch_accounts' : q.username # r.username

\* C9: under any interleaving of the reset request with start() and stop(), no
\* snapshot, event, failure or registry entry is deleted while the scheduler is
\* Running, and a rejected reset leaves the four tables unchanged.
ResetRejectedWhileRunning ==
    [][/\ RowsDeleted => ~Running
       /\ (ret'.op = "reset_monitor_data" /\ ret'.status = "error") =>
             store' = store]_vars

\* the four tables are empty
AllCleared ==
    events = <<>> /\ failures = <<>> /\ snapshots = <<>> /\ watch_accounts = {}

\* C10: an accepted data reset clears the four tables atomically: the step of
\* the reset that deletes rows leaves all four tables empty, so that no reader
\* or writer meets some tables cleared and others not.
ResetIsAtomic ==
    [][\A t \in Callers :
          (pc[t] \in {"reset_events", "reset_failures", "reset_snapshots",
                      "reset_accounts"}
             /\ pc'[t] # pc[t] /\ RowsDeleted) => AllCleared']_vars

\* the registry holds an entry for handle h whose active flag is a
HasEntry(accounts, h, a) == \E r \in accounts : r.username = h /\ r.active = a

\* C11: deactivate(h) returns true only if an entry for h existed and was
\* active before the call; for a handle whose entry is already inactive it
\* returns false and changes nothing.
DeactivateTrueOnlyIfActive ==
    [][\A t \in Callers, raw \in HandleInputs :
          RemoveWatch(t, raw) =>
              LET h == AppHandle(raw)
              IN  /\ ret'.status = "success" => HasEntry(watch_accounts, h, 1)
                  /\ HasEntry(watch_accounts, h, 0) =>
                        /\ ret'.status = "error"
                        /\ watch_accounts' = watch_accounts]_vars

\* the handles of the registry's entries
Handles(accounts) == {r.username : r \in accounts}

\* C12: deactivate(h) for a handle without an entry returns false and leaves
\* the registry unchanged, creating no entry; a removal keeps the entry and
\* only sets its active flag to 0; and no step other than the data reset's
\* DELETE FROM watch_accounts removes an entry.
OnlyResetRemovesEntries ==
    [][/\ \A t \in Callers, raw \in RawInputs :
             RemoveWatch(t, raw) =>
                 LET h == AppHandle(raw)
                 IN  /\ h \notin Handles(watch_accounts) =>
                           /\ ret'.status = "error"
                           /\ watch_accounts' = watch_accounts
                     /\ Handles(watch_accounts') = Handles(watch_accounts)
                     /\ \A r \in watch_accounts :
                           IF r.username = h
                           THEN [r EXCEPT !.active = 0] \in watch_accounts'
                           ELSE r \in watch_accounts'
       /\ ~(Handles(watch_accounts) \subseteq Handles(watch_accounts')) =>
             \E t \in Callers : pc[t] = "reset_accounts" /\ pc'[t] = "idle"]_vars

\* C12: a removal of an unknown handle was refused while the registry holds a
\* deactivated entry
OnlyResetRemovesEntriesWitness ==
    /\ ret.op = "remove_watch" /\ ret.status = "error"
    /\ \E r \in watch_accounts : r.active = 0
    /\ \E raw \in RawInputs : AppHandle(raw) \notin Handles(watch_accounts)

\* the entries of the registry for handle h
EntriesOf(accounts, h) == {r \in accounts : r.username = h}

SnapshotAtomicWithRegistry ==
    [][/\ Len(snapshots') > Len(snapshots) =>
             LET s == snapshots'[Len(snapshots')]
                 mine == EntriesOf(watch_accounts', PyToStr(s.username))
             IN  /\ Len(snapshots') = Len(snapshots) + 1
                 /\ mine # {}
                 /\ \A r \in mine : r.last_error = PyNone
                                      /\ r.last_checked_at = s.checked_at
       /\ Len(failures') > Len(failures) =>
             LET f == failures'[Len(failures')]
                 mine == EntriesOf(watch_accounts', f.username)
             IN  /\ Len(failures') = Len(failures) + 1
                 /\ mine # {}
                 /\ \A r \in mine : r.last_error = f.error
                                      /\ r.last_checked_at = f.checked_at]_vars

\* C14: a check has just saved the snapshot of an account that has a failure
\* on record, and the account's entry shows no error
SnapshotAtomicWithRegistryWitness ==
    /\ \E t \in Threads : pc[t] = "ca_events"
    /\ snapshots # <<>>
    /\ \E i \in 1..Len(failures) :
          PyStr(failures[i].username) = snapshots[Len(snapshots)].username
    /\ \A r \in EntriesOf(watch_accounts, PyToStr(snapshots[Len(snapshots)].username)) :
          r.last_error = PyNone

\* the usernames of the active entries
ActiveHandles(accounts) == {r.username : r \in {x \in accounts : x.active = 1}}

\* the usernames in a list of run_once
Listed(accounts) == {accounts[i] : i \in 1..Len(accounts)}

\* C15: a cycle works on the copy of the active set it read once, at its start.
\* The list the cycle reads holds exactly the handles active at that moment,
\* each once; as long as the cycle lasts the list stays as read, whatever is
\* added to or deactivated in the registry meanwhile; and every check the
\* cycle begins is the check of the list's next handle.
CycleUsesCopyOfActiveSet ==
    [][\A t \in Threads :
          /\ (pc[t] = "ro_list" /\ pc'[t] = "ro_next") =>
                /\ Listed(frame'[t].accounts) = ActiveHandles(watch_accounts)
                /\ Len(frame'[t].accounts) = Cardinality(ActiveHandles(watch_accounts))
                /\ frame'[t].idx = 1
          /\ (InCycle(t) /\ pc[t] # "ro_list" /\ pc'[t] \in CyclePcs \cup CheckPcs) =>
                frame'[t].accounts = frame[t].accounts
          /\ (pc[t] = "ro_next" /\ pc'[t] \in CheckPcs) =>
                /\ frame[t].idx <= Len(frame[t].accounts)
                /\ frame'[t].username = frame[t].accounts[frame[t].idx]]_vars

\* C15: a cycle is checking a handle that was deactivated since the cycle read
\* its list, while the registry has an active handle that is not on the list
CycleUsesCopyOfActiveSetWitness ==
    \E t \in Threads :
        /\ InCycle(t) /\ pc[t] \in CheckPcs
        /\ HasEntry(watch_accounts, frame[t].username, 0)
        /\ ActiveHandles(watch_accounts) \ Listed(frame[t].accounts) # {}

\* C16: one account's failure never blocks the others.  Every step a thread
\* takes inside a cycle that has read its list goes on with the cycle: a check that failed adds one to
\* failed, a check that succeeded adds one to checked, either moves on to the
\* next account of the list, and the cycle is left only after the last account
\* of the list, with the summary status ok, accounts = checked + failed.
NoAccountBlocksOthers ==
    [][\A t \in Threads :
          (InCycle(t) /\ pc[t] # "ro_list" /\ pc'[t] # pc[t]) =>
              LET f == frame[t]
                  g == frame'[t]
              IN  \/ /\ pc[t] = "ro_next" /\ pc'[t] \in {"ca_save", "ca_fail"}
                     /\ f.idx <= Len(f.accounts)
                     /\ g.username = f.accounts[f.idx]
                     /\ g.idx = f.idx /\ g.checked = f.checked /\ g.failed = f.failed
                  \/ /\ pc[t] = "ca_fail" /\ pc'[t] = "ro_next"
                     /\ Len(failures') = Len(failures) + 1
                     /\ g.idx = f.idx + 1
                     /\ g.failed = f.failed + 1 /\ g.checked = f.checked
                  \/ /\ pc[t] = "ca_save" /\ pc'[t] = "ca_events"
                     /\ g = f
                  \/ /\ pc[t] = "ca_events" /\ pc'[t] = "ro_next"
                     /\ g.idx = f.idx + 1
                     /\ g.checked = f.checked + 1 /\ g.failed = f.failed
                  \/ /\ pc[t] = "ro_next" /\ pc'[t] \notin CyclePcs \cup CheckPcs
                     /\ f.idx = Len(f.accounts) + 1
                     /\ f.checked + f.failed = Len(f.accounts)
                     /\ last_run_summary' =
                            [status |-> "ok", accounts |-> Len(f.accounts),
                             checked |-> f.checked, failed |-> f.failed]
                     /\ ret'.summary = last_run_summary']_vars

\* a handle in canonical normalized form: lowercase, no leading "@", matching
\* [A-Za-z0-9._]{2,24}
Canonical(h) == FullMatchHandle(h) /\ h = NormalForm(h)

\* C17: malformed handles never reach durable state.  In every reachable state
\* every handle stored in the account registry and every handle in the failure
\* log is in canonical normalized form.
StoredHandlesAreCanonical ==
    /\ \A r \in watch_accounts : Canonical(r.username)
    /\ \A i \in 1..Len(failures) : Canonical(failures[i].username)

\* value v is null or text that does not parse as an integer
Unparsable(v) == v.ty = "none" \/ (v.ty = "str" /\ ~IsIntLiteral(v.s))

\* the integer a parsable value stands for
IntOf(v) == IF v.ty = "str" THEN IntLiteral(v.s) ELSE v.i

\* the positions of the events of one metric in a list of events
EventsFor(evs, metric) == {k \in 1..Len(evs) : evs[k].metric = metric}

NumericMetrics == {"followers", "following", "likes", "videos_count"}

\* C18: whenever a check hands the detector a previous snapshot and a current
\* profile in which a numeric field parses as integer a before and as integer
\* b now, the detector emits exactly one event for that metric when a # b, with
\* old value a, new value b and delta b - a, and no event for it when a = b.
NumericChangeEmitsOneEvent ==
    \A t \in Threads :
        (pc[t] = "ca_events" /\ frame[t].previous # NoRow) =>
            LET previous == frame[t].previous
                current == frame[t].current
                evs == detect_profile_changes(previous, current)
            IN  \A m \in NumericMetrics :
                    (~Unparsable(previous[m]) /\ ~Unparsable(current[m])) =>
                        LET a == IntOf(previous[m])
                            b == IntOf(current[m])
                        IN  IF a # b
                            THEN /\ Cardinality(EventsFor(evs, m)) = 1
                                 /\ \A k \in EventsFor(evs, m) :
                                       /\ evs[k].old_value = PyInt(a)
                                       /\ evs[k].new_value = PyInt(b)
                                       /\ evs[k].delta = PyInt(b - a)
                            ELSE EventsFor(evs, m) = {}

\* C18: a check has recorded the events of a page whose followerCount, the
\* string "150", follows a stored 100 while likes went down from 2 to 1
NumericChangeEmitsOneEventWitness ==
    /\ ret.op = "check_account" /\ ret.status = "true"
    /\ \E i \in 1..Len(events) :
          /\ events[i].metric = "followers"
          /\ events[i].old_value = PyStr(<<"1", "0", "0">>)
          /\ events[i].new_value = PyStr(<<"1", "5", "0">>)
          /\ events[i].delta = PyInt(50)
    /\ \E i \in 1..Len(events) :
          events[i].metric = "likes" /\ events[i].delta = PyInt(0 - 1)

\* the pairs of successive snapshots of one account
SuccessiveSnapshots(username) ==
    {p \in (1..Len(snapshots)) \X (1..Len(snapshots)) :
        /\ p[1] < p[2]
        /\ snapshots[p[1]].username = username /\ snapshots[p[2]].username = username
        /\ \A k \in (p[1] + 1)..(p[2] - 1) : snapshots[k].username # username}

\* C19: whenever a numeric field is null or unparsable in the previous snapshot
\* or in the current profile of a check, the detector emits no event for that
\* metric; and the Event Log never holds more events of a metric and an account
\* than the account has pairs of successive snapshots that both carry a value
\* for it, so a value that disappears and reappears changed leaves no event.
UnparsableSideEmitsNoEvent ==
    /\ \A t \in Threads :
          (pc[t] = "ca_events" /\ frame[t].previous # NoRow) =>
              LET previous == frame[t].previous
                  current == frame[t].current
                  evs == detect_profile_changes(previous, current)
              IN  \A m \in NumericMetrics :
                      (Unparsable(previous[m]) \/ Unparsable(current[m])) =>
                          EventsFor(evs, m) = {}
    /\ \A m \in NumericMetrics, u \in {snapshots[i].username : i \in 1..Len(snapshots)} :
          Cardinality({k \in 1..Len(events) :
                          events[k].metric = m /\ PyStr(events[k].username) = u})
              <= Cardinality({p \in SuccessiveSnapshots(u) :
                                 /\ snapshots[p[1]][m] # PyNone
                                 /\ snapshots[p[2]][m] # PyNone})

\* C19: three checks have seen followers 100, then text that is no number, then
\* 150, and the Event Log holds no followers event
UnparsableSideEmitsNoEventWitness ==
    /\ ret.op = "check_account" /\ ret.status = "true"
    /\ Len(snapshots) = 3
    /\ snapshots[1].followers = PyInt(100)
    /\ snapshots[2].followers = PyNone
    /\ snapshots[3].followers = PyInt(150)
    /\ events # <<>>
    /\ \A k \in 1..Len(events) : events[k].metric # "followers"

\* the order of the metrics
MetricOrder ==
    <<"followers", "following", "likes", "videos_count", "nickname", "bio", "verified">>

\* the place of metric m in that order, 0 for any other name
MetricRank(m) ==
    IF \E i \in 1..Len(MetricOrder) : MetricOrder[i] = m
    THEN CHOOSE i \in 1..Len(MetricOrder) : MetricOrder[i] = m
    ELSE 0

\* C20: event order is fixed.  In the step that ends a successful check the
\* metrics of the events the detector returns are metrics of the list
\* [followers, following, likes, videos_count, nickname, bio, verified] in
\* strictly increasing place (a subsequence without repetition), and the step
\* appends exactly these events to the Event Log in that order, with
\* identities that grow by one from the last identity given.
EventOrderIsFixed ==
    [][\A t \in Threads :
          (pc[t] = "ca_events" /\ pc'[t] # "ca_events") =>
              LET evs == detect_profile_changes(frame[t].previous, frame[t].current)
                  n == Len(evs)
              IN  /\ \A k \in 1..n : MetricRank(evs[k].metric) > 0
                  /\ \A j, k \in 1..n :
                        j < k => MetricRank(evs[j].metric) < MetricRank(evs[k].metric)
                  /\ Len(events') = Len(events) + n
                  /\ SubSeq(events', 1, Len(events)) = events
                  /\ \A k \in 1..n :
                        /\ events'[Len(events) + k].metric = evs[k].metric
                        /\ events'[Len(events) + k].id = seq.events + k
                  /\ \A j, k \in 1..Len(events') :
                        j < k => events'[j].id < events'[k].id]_vars

\* C20: one check has found followers, bio and verified changed at once, and
\* the Event Log holds its three events in this order
EventOrderIsFixedWitness ==
    /\ ret.op = "check_account" /\ ret.status = "true"
    /\ Len(events) = 3
    /\ events[1].metric = "followers" /\ events[2].metric = "bio"
    /\ events[3].metric = "verified"
    /\ events[1].id = 1 /\ events[2].id = 2 /\ events[3].id = 3

\* C21: a check keeps the books of the handle it was asked to check.  The step
\* in which a check of a handle h of the registry saves its snapshot leaves the
\* entry of h with last-checked set to that moment and last-error cleared, and
\* the step in which it records its failure leaves the entry of h with
\* last-checked set to that moment and last-error equal to the error text,
\* whatever handle the fetched profile carries.
CheckUpdatesRequestedHandle ==
    [][\A t \in Threads :
          (pc[t] \in {"ca_save", "ca_fail"} /\ pc'[t] # pc[t]
               /\ HasAccount(frame[t].username)) =>
              \A r \in EntriesOf(watch_accounts', frame[t].username) :
                  /\ r.last_checked_at = utc_now_iso(now')
                  /\ r.last_error = IF pc[t] = "ca_save" THEN PyNone
                                    ELSE frame[t].error]_vars

\* C22: a change of the interval takes effect for the next wait, not for the
\* wait in progress.  A wait begins with the interval as it is at that moment;
\* while the thread waits, the time it is to wait stays as read, whatever the
\* setting becomes; and the wait ends only on the stop signal or when exactly
\* that time has passed.
IntervalAppliesToNextWait ==
    [][\A l \in Loops :
          /\ (pc[l] = "loop_wait" /\ pc'[l] = "waiting") =>
                frame'[l].timeout = interval_seconds /\ frame'[l].waited = 0
          /\ (pc[l] = "waiting" /\ pc'[l] = "waiting") =>
                frame'[l].timeout = frame[l].timeout
          /\ (pc[l] = "waiting" /\ pc'[l] # "waiting") =>
                stop_event \/ frame[l].waited = frame[l].timeout]_vars

\* C22: a loop thread that began to wait under the long interval is still
\* asleep after the short interval the setting was changed to has passed
IntervalAppliesToNextWaitWitness ==
    \E l \in Loops :
        /\ pc[l] = "waiting" /\ ~stop_event
        /\ frame[l].timeout = 2 * MinInterval
        /\ interval_seconds = MinInterval
        /\ frame[l].waited = MinInterval

\* C23: writing a snapshot or a failure upserts the registry entry with
\* active = true.  Every step that appends a snapshot or a failure record
\* leaves the registry with an entry for the row's handle, and that entry is
\* active, whether the handle had an entry before or not.
WriteRegistersHandleActive ==
    [][/\ Len(snapshots') > Len(snapshots) =>
             HasEntry(watch_accounts',
                      PyToStr(snapshots'[Len(snapshots')].username), 1)
       /\ Len(failures') > Len(failures) =>
             HasEntry(watch_accounts', failures'[Len(failures')].username, 1)]_vars

\* C24: every persisted event describes the change between two consecutive
\* snapshots of one account.  In the step in which a check of an account, asked
\* for by the account's canonical handle, appends its snapshot N, the events the
\* check goes on to write, detect(previous, current) of its own frame, are the
\* events detect(P, N) of N and the snapshot P that came last in the account's
\* history before N, also when another check of the account runs meanwhile.
EventsBetweenConsecutiveSnapshots ==
    [][\A t \in Threads :
          (pc[t] = "ca_save" /\ pc'[t] = "ca_events"
               /\ frame[t].username = PyToStr(frame[t].current.username)) =>
              LET P == get_latest_snapshot(frame[t].username)
                  N == get_latest_snapshot(frame[t].username)'
              IN  detect_profile_changes(frame[t].previous, frame[t].current)
                      = detect_profile_changes(P, N)]_vars

\* the loop threads that were started and have not finished
LiveLoops == {l \in Loops : IsAlive(l)}

\* C25: at most one background loop worker exists at any time.  In every
\* reachable state at most one thread executing _run_loop is alive, and a live
\* one is the thread the scheduler tracks in _thread.
AtMostOneLoopWorker ==
    /\ Cardinality(LiveLoops) <= 1
    /\ \A l \in LiveLoops : thread = l

\* C26: every iteration of the periodic loop executes one cycle before it
\* waits.  A loop thread comes to its wait only from the end of a cycle it
\* executed itself, after the last account of the list it read, never from a
\* call of run_once that was turned away.
IterationRunsCycleBeforeWait ==
    [][\A l \in Loops :
          (pc[l] # "loop_wait" /\ pc'[l] = "loop_wait") =>
              /\ pc[l] = "ro_next"
              /\ frame[l].idx > Len(frame[l].accounts)
              /\ ret'.status = "ok"]_vars

\* C27: the cycle guard is always released.  Every step by which a thread
\* leaves a cycle, at its end or by an error raised inside it, frees the guard
\* and sets last_run_finished_at to that moment; after every step the guard is
\* held exactly when a cycle is executing; and run_once answers busy only
\* while a cycle is executing.
GuardAlwaysReleased ==
    [][/\ \A t \in Threads :
             (InCycle(t) /\ pc'[t] \notin CyclePcs \cup CheckPcs) =>
                 /\ ~run_lock'
                 /\ last_run_finished_at' = utc_now_iso(now')
       /\ run_lock' <=> (\E t \in Threads :
                            /\ pc'[t] \in CyclePcs \cup CheckPcs
                            /\ frame'[t].op # "check_watch_now")
       /\ ret'.status = "busy" => Cycling # {}]_vars

\* C27: an error has just left a cycle, and the guard is free
GuardAlwaysReleasedWitness ==
    /\ ret.op = "run_once" /\ ret.status = "raised"
    /\ ~run_lock /\ Cycling = {}
    /\ last_run_finished_at # PyNone

\* the program points of clear_monitor_data, before each of its DELETEs
ResetPcs == {"reset_events", "reset_failures", "reset_snapshots", "reset_accounts"}

\* C28: data reset never runs while a cycle or an account check is in flight.
\* No DELETE of clear_monitor_data is executed in a state in which a thread is
\* between the start and the end of a run_once cycle or of a check_account
\* call.
ResetNeverMeetsCheck ==
    [][\A t \in Threads :
          (pc[t] \in ResetPcs /\ pc'[t] # pc[t]) =>
              \A u \in Threads : pc[u] \notin CyclePcs \cup CheckPcs]_vars

\* C29: stop is eventually effective.  With the loop thread scheduled fairly,
\* a live loop thread that the stop signal has reached terminates, unless a
\* start() clears the signal before; a sleeping thread needs no time to pass
\* for that.  A thread that has terminated stays terminated, and is_running is
\* false whenever the tracked thread has terminated.
StopEventuallyEffective ==
    /\ \A l \in Loops : (stop_event /\ IsAlive(l)) ~> (~stop_event \/ pc[l] = "dead")
    /\ [][\A l \in Loops : pc[l] = "dead" => pc'[l] = "dead"]_vars
    /\ [](\A l \in Loops : (thread = l /\ pc[l] = "dead") => ~is_running)

\* C29: stop() has returned from a join that did not time out; the stop signal
\* is set, the tracked thread has terminated and is_running is false
StopEventuallyEffectiveWitness ==
    /\ ret.op = "stop" /\ ret.status = "true" /\ ~ret.timed_out
    /\ stop_event
    /\ thread # NoThread /\ pc[thread] = "dead"
    /\ ~is_running

====
